---- MODULE Spec2Model ----
(***************************************************************************)
(* pgdoc: schema extraction (getFullSchema and the queries it issues) and  *)
(* the output stage of main.  Strings that the code compares, joins or     *)
(* splits are sequences of one-character strings; a query is one step      *)
(* whose result (rows or an error) is drawn from a bounded set.            *)
(***************************************************************************)
EXTENDS Integers, Sequences, FiniteSets, TLC

VARIABLES
    pc,          \* position inside getFullSchema
    exclude,     \* config.Exclude
    rows,        \* rows produced by the table-list query (before exclusion)
    tables,      \* local `tables` of getFullSchema
    idx,         \* loop index of `for idx, table := range tables` (1-based)
    cols,        \* local `cols` of the current iteration
    constraints, \* local `constraints` of the current iteration
    colsOf,      \* history: the column list fetched for each table index
    consOf,      \* history: the constraint list fetched for each table index
    enumRows,    \* declared enums of the catalog: name and ordered labels
    ret,         \* what getFullSchema returned: [schema, err]
    queries,     \* log of the queries issued so far, in order
    flags,       \* main: the -puml, -json and -md flags
    outs,        \* main: what happened to each output destination
    exitStatus   \* main: how the process ended

vars == <<pc, exclude, rows, tables, idx, cols, constraints, colsOf, consOf,
          enumRows, ret, queries, flags, outs, exitStatus>>

extractVars == <<exclude, rows, tables, idx, cols, constraints, colsOf, consOf,
                 enumRows, ret, queries>>
mainVars == <<flags, outs, exitStatus>>

----------------------------------------------------------------------------
(* Bounds *)

MaxCons == 2      \* constraints returned for one table
MaxCols == 2      \* columns returned for one table

----------------------------------------------------------------------------
(* Strings *)

log  == <<"l", "o", "g">>
logs == <<"l", "o", "g", "s">>

TableNames == {log, logs}
ColumnNames == {"a", "b"}

\* Sequences over S of length at most n.
SeqsUpTo(S, n) == UNION {[1..k -> S] : k \in 0..n}

\* Sequences over S without repetition, of length at most n.
DistinctSeqs(S, n) ==
    {s \in SeqsUpTo(S, n) : \A i, j \in 1..Len(s) : i # j => s[i] # s[j]}

Range(s) == {s[i] : i \in 1..Len(s)}

----------------------------------------------------------------------------
(* Values *)

NoErr == [kind |-> "nil"]
NilSchema == [isNil |-> TRUE]
NoReturn == [returned |-> FALSE]

\* ColumnDefinition: the code only reads Name; the rest travels with it.
ColumnDefinition(n) == [Name |-> n]

\* ColumnIdentity
ColumnIdentity(t, c) == [Table |-> t, Column |-> c]

\* Table as built by getTableNames: only the name is set.
Table(n) == [Name |-> n, KeyColumns |-> <<>>, Columns |-> <<>>, ForeignKeys |-> <<>>]

\* ConstraintDefinition
ConstraintDefinition(name, type, local, foreign) ==
    [ConstraintName |-> name, ConstraintType |-> type,
     LocalColumns |-> local, ForeignColumns |-> foreign]

\* ForeignKeyDefinition
ForeignKeyDefinition(column, name, refTable, refColumn) ==
    [Column |-> column, Name |-> name, RefTable |-> refTable, RefColumn |-> refColumn]

\* Schema
Schema(ts, es) == [isNil |-> FALSE, Tables |-> ts, Enums |-> es]

\* Enum
Enum(name, values) == [Name |-> name, Values |-> values]

\* The error values of getFullSchema; each carries what its message prints.
ErrQuery(q) == [kind |-> "query failed", query |-> q]
ErrPrimaryKeyTable(tableName, constraint, column) ==
    [kind |-> "Table %s had primary key %s in %s", table |-> tableName,
     constraint |-> constraint.ConstraintName, inTable |-> column.Table]
ErrForeignKeyColumns(constraint) ==
    [kind |-> "foreign keys should have 1 local, 1 foreign column. See %s",
     constraint |-> constraint.ConstraintName]
ErrForeignKeyTable(tableName, constraint, column) ==
    [kind |-> "Table %s had foreign key %s in %s", table |-> tableName,
     constraint |-> constraint.ConstraintName, inTable |-> column.Table]
ErrUnknownConstraint(constraint) ==
    [kind |-> "Unknown Constraint: %s", type |-> constraint.ConstraintType]

\* The queries, as logged.
QTables == [q |-> "tables"]
QColumns(t) == [q |-> "columns", table |-> t]
QConstraints(t) == [q |-> "constraints", table |-> t]
QEnums == [q |-> "enums"]

----------------------------------------------------------------------------
(* getTableNames *)

\* s is a prefix of t.
IsPrefix(s, t) == Len(s) <= Len(t) /\ SubSeq(t, 1, Len(s)) = s

\* s occurs inside t.
IsSubstring(s, t) ==
    \E k \in 0..(Len(t) - Len(s)) : SubSeq(t, k + 1, k + Len(s)) = s

ToLower(ch) == CASE ch = "L" -> "l" [] OTHER -> ch

\* Equal but for the case of the letters.
EqualFold(s, t) ==
    Len(s) = Len(t) /\ \A i \in 1..Len(s) : ToLower(s[i]) = ToLower(t[i])

\* Variant of Matches: strings.HasPrefix(table.Name, exc) in place of ==.
MatchesPrefix(exc, name) == IsPrefix(exc, name)

\* `exc == table.Name`: Go string equality.
Matches(exc, name) == exc = name

\* for _, exc := range exclude { if exc == table.Name { continue rows } }
RECURSIVE excludeLoop(_, _)
excludeLoop(excl, name) ==
    IF excl = <<>> THEN FALSE
    ELSE IF Matches(Head(excl), name) THEN TRUE
    ELSE excludeLoop(Tail(excl), name)

\* for rows.Next() { ... tables = append(tables, table) }
RECURSIVE rowsLoop(_, _, _)
rowsLoop(rs, excl, acc) ==
    IF rs = <<>> THEN acc
    ELSE IF excludeLoop(excl, Head(rs)) THEN rowsLoop(Tail(rs), excl, acc)
    ELSE rowsLoop(Tail(rs), excl, Append(acc, Table(Head(rs))))

getTableNames(rs, excl) == rowsLoop(rs, excl, <<>>)

----------------------------------------------------------------------------
(* Constraint classification and column partition of getFullSchema *)

\* pkCols[column.Column] = constraint
MapPut(m, k, v) == [x \in (DOMAIN m) \cup {k} |-> IF x = k THEN v ELSE m[x]]

\* Variant of primaryKeyLoop: the owning table of a column is not compared.
RECURSIVE primaryKeyLoopAnyTable(_, _, _, _)
primaryKeyLoopAnyTable(locals, tableName, constraint, pk) ==
    IF locals = <<>> THEN [err |-> NoErr, pkCols |-> pk]
    ELSE primaryKeyLoopAnyTable(Tail(locals), tableName, constraint,
                                MapPut(pk, Head(locals).Column, constraint))

\* case "PRIMARY KEY": for _, column := range constraint.LocalColumns
RECURSIVE primaryKeyLoop(_, _, _, _)
primaryKeyLoop(locals, tableName, constraint, pk) ==
    IF locals = <<>> THEN [err |-> NoErr, pkCols |-> pk]
    ELSE LET column == Head(locals) IN
         IF column.Table # tableName
         THEN [err |-> ErrPrimaryKeyTable(tableName, constraint, column), pkCols |-> pk]
         ELSE primaryKeyLoop(Tail(locals), tableName, constraint,
                             MapPut(pk, column.Column, constraint))

\* Variant of foreignKeyCase: the new definition is put in front of fkCols.
foreignKeyCasePrepend(constraint, tableName, fk) ==
    IF Len(constraint.LocalColumns) # 1 \/ Len(constraint.ForeignColumns) # 1
    THEN [err |-> ErrForeignKeyColumns(constraint), fkCols |-> fk]
    ELSE LET localCol == constraint.LocalColumns[1]
             foreignCol == constraint.ForeignColumns[1] IN
         IF localCol.Table # tableName
         THEN [err |-> ErrForeignKeyTable(tableName, constraint, localCol), fkCols |-> fk]
         ELSE [err |-> NoErr,
               fkCols |-> <<ForeignKeyDefinition(localCol.Column,
                                     constraint.ConstraintName,
                                     foreignCol.Table, foreignCol.Column)>> \o fk]

\* Variant of foreignKeyCase: only a missing column is refused, the columns
\* after the first are dropped.
foreignKeyCaseFirstOnly(constraint, tableName, fk) ==
    IF Len(constraint.LocalColumns) < 1 \/ Len(constraint.ForeignColumns) < 1
    THEN [err |-> ErrForeignKeyColumns(constraint), fkCols |-> fk]
    ELSE LET localCol == constraint.LocalColumns[1]
             foreignCol == constraint.ForeignColumns[1] IN
         IF localCol.Table # tableName
         THEN [err |-> ErrForeignKeyTable(tableName, constraint, localCol), fkCols |-> fk]
         ELSE [err |-> NoErr,
               fkCols |-> Append(fk, ForeignKeyDefinition(localCol.Column,
                                     constraint.ConstraintName,
                                     foreignCol.Table, foreignCol.Column))]

\* case "FOREIGN KEY"
foreignKeyCase(constraint, tableName, fk) ==
    IF Len(constraint.LocalColumns) # 1 \/ Len(constraint.ForeignColumns) # 1
    THEN [err |-> ErrForeignKeyColumns(constraint), fkCols |-> fk]
    ELSE LET localCol == constraint.LocalColumns[1]
             foreignCol == constraint.ForeignColumns[1] IN
         IF localCol.Table # tableName
         THEN [err |-> ErrForeignKeyTable(tableName, constraint, localCol), fkCols |-> fk]
         ELSE [err |-> NoErr,
               fkCols |-> Append(fk, ForeignKeyDefinition(localCol.Column,
                                     constraint.ConstraintName,
                                     foreignCol.Table, foreignCol.Column))]

\* Variant of constraintLoop: the switch has no default, a constraint of
\* another kind is skipped.
RECURSIVE constraintLoopNoDefault(_, _, _, _)
constraintLoopNoDefault(cs, tableName, pk, fk) ==
    IF cs = <<>> THEN [err |-> NoErr, pkCols |-> pk, fkCols |-> fk]
    ELSE LET constraint == Head(cs) IN
         CASE constraint.ConstraintType = "PRIMARY KEY" ->
                LET r == primaryKeyLoop(constraint.LocalColumns, tableName, constraint, pk) IN
                IF r.err # NoErr THEN [err |-> r.err, pkCols |-> r.pkCols, fkCols |-> fk]
                ELSE constraintLoopNoDefault(Tail(cs), tableName, r.pkCols, fk)
           [] constraint.ConstraintType = "FOREIGN KEY" ->
                LET r == foreignKeyCase(constraint, tableName, fk) IN
                IF r.err # NoErr THEN [err |-> r.err, pkCols |-> pk, fkCols |-> r.fkCols]
                ELSE constraintLoopNoDefault(Tail(cs), tableName, pk, r.fkCols)
           [] OTHER -> constraintLoopNoDefault(Tail(cs), tableName, pk, fk)

\* for _, constraint := range constraints { switch constraint.ConstraintType ... }
RECURSIVE constraintLoop(_, _, _, _)
constraintLoop(cs, tableName, pk, fk) ==
    IF cs = <<>> THEN [err |-> NoErr, pkCols |-> pk, fkCols |-> fk]
    ELSE LET constraint == Head(cs) IN
         CASE constraint.ConstraintType = "PRIMARY KEY" ->
                LET r == primaryKeyLoop(constraint.LocalColumns, tableName, constraint, pk) IN
                IF r.err # NoErr THEN [err |-> r.err, pkCols |-> r.pkCols, fkCols |-> fk]
                ELSE constraintLoop(Tail(cs), tableName, r.pkCols, fk)
           [] constraint.ConstraintType = "FOREIGN KEY" ->
                LET r == foreignKeyCase(constraint, tableName, fk) IN
                IF r.err # NoErr THEN [err |-> r.err, pkCols |-> pk, fkCols |-> r.fkCols]
                ELSE constraintLoop(Tail(cs), tableName, pk, r.fkCols)
           [] OTHER ->
                [err |-> ErrUnknownConstraint(constraint), pkCols |-> pk, fkCols |-> fk]

\* if _, ok := pkCols[col.Name]; ok
IsKey(pk, col) == col.Name \in DOMAIN pk

\* Variant of colsLoop: the else is missing, a key column is appended to both.
RECURSIVE colsLoopNoElse(_, _, _, _)
colsLoopNoElse(cs, pk, keyColumns, restColumns) ==
    IF cs = <<>> THEN [keyColumns |-> keyColumns, restColumns |-> restColumns]
    ELSE IF IsKey(pk, Head(cs))
         THEN colsLoopNoElse(Tail(cs), pk, Append(keyColumns, Head(cs)),
                             Append(restColumns, Head(cs)))
         ELSE colsLoopNoElse(Tail(cs), pk, keyColumns, Append(restColumns, Head(cs)))

\* for _, col := range cols { keyColumns / restColumns = append(...) }
RECURSIVE colsLoop(_, _, _, _)
colsLoop(cs, pk, keyColumns, restColumns) ==
    IF cs = <<>> THEN [keyColumns |-> keyColumns, restColumns |-> restColumns]
    ELSE IF IsKey(pk, Head(cs))
         THEN colsLoop(Tail(cs), pk, Append(keyColumns, Head(cs)), restColumns)
         ELSE colsLoop(Tail(cs), pk, keyColumns, Append(restColumns, Head(cs)))

----------------------------------------------------------------------------
(* getEnums *)

\* string_agg(e.enumlabel, '|' ORDER BY e.enumsortorder): labels is never empty,
\* the query joins pg_enum.
RECURSIVE stringAgg(_, _)
stringAgg(labels, sep) ==
    IF Len(labels) = 1 THEN Head(labels)
    ELSE Head(labels) \o <<sep>> \o stringAgg(Tail(labels), sep)

\* strings.Split(s, sep) for a one-character sep: n separators give n+1 pieces.
RECURSIVE splitLoop(_, _, _, _)
splitLoop(s, sep, cur, acc) ==
    IF s = <<>> THEN Append(acc, cur)
    ELSE IF Head(s) = sep THEN splitLoop(Tail(s), sep, <<>>, Append(acc, cur))
    ELSE splitLoop(Tail(s), sep, Append(cur, Head(s)), acc)

Split(s, sep) == splitLoop(s, sep, <<>>, <<>>)

\* The rows of the enum query for a catalog: (typname, enum_labels).
enumQueryRows(catalog) ==
    [i \in 1..Len(catalog) |->
        [name |-> catalog[i].Name, valsRaw |-> stringAgg(catalog[i].Labels, "|")]]

\* for rows.Next() { enums = append(enums, Enum{...}) }
RECURSIVE enumsLoop(_, _)
enumsLoop(rs, acc) ==
    IF rs = <<>> THEN acc
    ELSE enumsLoop(Tail(rs), Append(acc, Enum(Head(rs).name, Split(Head(rs).valsRaw, "|"))))

getEnums(catalog) == enumsLoop(enumQueryRows(catalog), <<>>)

----------------------------------------------------------------------------
(* Catalog contents the queries may return *)

Other(t) == CHOOSE o \in TableNames : o # t

\* The constraint shapes the constraint query may report for table t. A shape
\* that names the other table exists only when the catalog holds that table
\* (rs are the rows of the table-list query, before exclusion).
ConstraintPool(t, rs) ==
    { ConstraintDefinition("pk", "PRIMARY KEY", <<ColumnIdentity(t, "a")>>, <<>>),
      ConstraintDefinition("fk2", "FOREIGN KEY",
                           <<ColumnIdentity(t, "a")>>, <<ColumnIdentity(t, "b")>>),
      ConstraintDefinition("chk", "CHECK", <<ColumnIdentity(t, "a")>>, <<>>) }
    \cup
    IF Other(t) \notin Range(rs) THEN {} ELSE
    { ConstraintDefinition("pkx", "PRIMARY KEY",
                           <<ColumnIdentity(t, "a"), ColumnIdentity(Other(t), "b")>>, <<>>),
      ConstraintDefinition("fk1", "FOREIGN KEY",
                           <<ColumnIdentity(t, "b")>>, <<ColumnIdentity(Other(t), "a")>>),
      ConstraintDefinition("fk3", "FOREIGN KEY",
                           <<ColumnIdentity(t, "a"), ColumnIdentity(t, "b")>>,
                           <<ColumnIdentity(Other(t), "a"), ColumnIdentity(Other(t), "b")>>),
      ConstraintDefinition("fk4", "FOREIGN KEY",
                           <<ColumnIdentity(Other(t), "b")>>, <<ColumnIdentity(t, "a")>>),
      ConstraintDefinition("fk5", "FOREIGN KEY",
                           <<ColumnIdentity(Other(t), "b")>>, <<>>) }

\* The constraints the query reports for table t of a consistent catalog: its
\* WHERE clause keeps PRIMARY KEY and FOREIGN KEY only and the local columns
\* are those of t; a foreign key may be composite.
CatalogPool(t, rs) ==
    { ConstraintDefinition("pk", "PRIMARY KEY", <<ColumnIdentity(t, "a")>>, <<>>),
      ConstraintDefinition("fk2", "FOREIGN KEY",
                           <<ColumnIdentity(t, "a")>>, <<ColumnIdentity(t, "b")>>) }
    \cup
    IF Other(t) \notin Range(rs) THEN {} ELSE
    { ConstraintDefinition("fk1", "FOREIGN KEY",
                           <<ColumnIdentity(t, "b")>>, <<ColumnIdentity(Other(t), "a")>>),
      ConstraintDefinition("fk3", "FOREIGN KEY",
                           <<ColumnIdentity(t, "a"), ColumnIdentity(t, "b")>>,
                           <<ColumnIdentity(Other(t), "a"), ColumnIdentity(Other(t), "b")>>),
      ConstraintDefinition("fk6", "FOREIGN KEY",
                           <<ColumnIdentity(t, "b"), ColumnIdentity(t, "a")>>,
                           <<ColumnIdentity(Other(t), "b"), ColumnIdentity(Other(t), "a")>>) }

ColumnLists ==
    {[i \in 1..Len(s) |-> ColumnDefinition(s[i])] : s \in DistinctSeqs(ColumnNames, MaxCols)}

RowLists == DistinctSeqs(TableNames, Cardinality(TableNames))

ExcludeLists == {<<>>, <<logs>>}

statusEnum == [Name |-> "status", Labels |-> <<<<"x">>, <<"y">>>>]
roleEnum   == [Name |-> "role", Labels |-> <<<<"y">>>>]
EnumCatalogs == {<<>>, <<statusEnum, roleEnum>>, <<roleEnum, statusEnum>>}

----------------------------------------------------------------------------
(* getFullSchema, one step per query and one for the assembly of a table *)

\* Variant of Fail: the tables assembled so far are returned with the error.
FailPartial(e) ==
    /\ ret' = [schema |-> Schema(tables, <<>>), err |-> e]
    /\ pc' = "returned"

\* return nil, err
Fail(e) ==
    /\ ret' = [schema |-> NilSchema, err |-> e]
    /\ pc' = "returned"

\* Variant of LoopHead: the loop ends one table early.
LoopHeadSkipLast(ts, i) == IF i < Len(ts) THEN "getColumns" ELSE "getEnums"

\* The head of `for idx, table := range tables`.
LoopHead(ts, i) == IF i <= Len(ts) THEN "getColumns" ELSE "getEnums"

ExtractInit ==
    /\ pc = "getTableNames"
    /\ exclude \in ExcludeLists
    /\ rows = <<>>
    /\ tables = <<>>
    /\ idx = 1
    /\ cols = <<>>
    /\ constraints = <<>>
    /\ colsOf = <<>>
    /\ consOf = <<>>
    /\ enumRows = <<>>
    /\ ret = NoReturn
    /\ queries = <<>>

Renderers == {"puml", "json", "md"}

MainIdle ==
    /\ flags = [r \in Renderers |-> ""]
    /\ outs = [r \in Renderers |-> "untouched"]
    /\ exitStatus = "running"

\* tables, err := getTableNames(ctx, db, schema, config.Exclude)
GetTableNamesFrom(rowLists) ==
    /\ pc = "getTableNames"
    /\ queries' = Append(queries, QTables)
    /\ \/ /\ Fail(ErrQuery(QTables))
          /\ UNCHANGED <<rows, tables, idx>>
       \/ \E rs \in rowLists :
            /\ rows' = rs
            /\ tables' = getTableNames(rs, exclude)
            /\ idx' = 1
            /\ pc' = LoopHead(tables', 1)
            /\ UNCHANGED ret
    /\ UNCHANGED <<exclude, cols, constraints, colsOf, consOf, enumRows>>
    /\ UNCHANGED mainVars

GetTableNames == GetTableNamesFrom(RowLists)

\* cols, err := getColumns(ctx, db, schema, table.Name)
GetColumns ==
    /\ pc = "getColumns"
    /\ queries' = Append(queries, QColumns(tables[idx].Name))
    /\ \/ /\ Fail(ErrQuery(QColumns(tables[idx].Name)))
          /\ UNCHANGED <<cols, colsOf>>
       \/ \E cs \in ColumnLists :
            /\ cols' = cs
            /\ colsOf' = Append(colsOf, cs)
            /\ pc' = "getConstraints"
            /\ UNCHANGED ret
    /\ UNCHANGED <<exclude, rows, tables, idx, constraints, consOf, enumRows>>
    /\ UNCHANGED mainVars

\* constraints, err := getConstraints(ctx, db, schema, table.Name)
GetConstraintsFrom(pool) ==
    /\ pc = "getConstraints"
    /\ queries' = Append(queries, QConstraints(tables[idx].Name))
    /\ \/ /\ Fail(ErrQuery(QConstraints(tables[idx].Name)))
          /\ UNCHANGED <<constraints, consOf>>
       \/ \E cs \in SeqsUpTo(pool, MaxCons) :
            /\ constraints' = cs
            /\ consOf' = Append(consOf, cs)
            /\ pc' = "assemble"
            /\ UNCHANGED ret
    /\ UNCHANGED <<exclude, rows, tables, idx, cols, colsOf, enumRows>>
    /\ UNCHANGED mainVars

\* Whatever decodes as a ConstraintDefinition may come back.
GetConstraints == GetConstraintsFrom(ConstraintPool(tables[idx].Name, rows))

\* The rest of the loop body: classify the constraints, partition the columns,
\* attach both to tables[idx]. pkCols0 is the key map the iteration starts from.
AssembleWith(pkCols0) ==
    /\ pc = "assemble"
    /\ LET r == constraintLoop(constraints, tables[idx].Name, pkCols0, <<>>) IN
       IF r.err # NoErr
       THEN /\ Fail(r.err)
            /\ UNCHANGED <<tables, idx>>
       ELSE LET p == colsLoop(cols, r.pkCols, <<>>, <<>>) IN
            /\ tables' = [tables EXCEPT ![idx] =
                             [Name |-> @.Name, KeyColumns |-> p.keyColumns,
                              Columns |-> p.restColumns, ForeignKeys |-> r.fkCols]]
            /\ idx' = idx + 1
            /\ pc' = LoopHead(tables, idx + 1)
            /\ UNCHANGED ret
    /\ UNCHANGED <<exclude, rows, cols, constraints, colsOf, consOf, enumRows, queries>>
    /\ UNCHANGED mainVars

\* enums, err := getEnums(ctx, db, schema); return &Schema{...}, nil
GetEnumsFrom(catalogs) ==
    /\ pc = "getEnums"
    /\ queries' = Append(queries, QEnums)
    /\ \/ /\ Fail(ErrQuery(QEnums))
          /\ UNCHANGED enumRows
       \/ \E catalog \in catalogs :
            /\ enumRows' = catalog
            /\ ret' = [schema |-> Schema(tables, getEnums(catalog)), err |-> NoErr]
            /\ pc' = "returned"
    /\ UNCHANGED <<exclude, rows, tables, idx, cols, constraints, colsOf, consOf>>
    /\ UNCHANGED mainVars

\* Variant of Assemble: pkCols is declared before the loop over the tables, so
\* it still holds the keys of the tables assembled earlier.
KeysSoFar ==
    LET names == UNION {{c.Name : c \in Range(tables[i].KeyColumns)} : i \in 1..(idx - 1)} IN
    [n \in names |-> "earlier"]
AssembleSharedKeys == AssembleWith(KeysSoFar)

\* pkCols := map[string]ConstraintDefinition{} at the top of every iteration
Assemble == AssembleWith(<<>>)

GetEnums == GetEnumsFrom(EnumCatalogs)

Init == ExtractInit /\ MainIdle

Next ==
    \/ GetTableNames
    \/ GetColumns
    \/ GetConstraints
    \/ Assemble
    \/ GetEnums

Spec == Init /\ [][Next]_vars

\* The same run over a consistent catalog.
GetCatalogConstraints == GetConstraintsFrom(CatalogPool(tables[idx].Name, rows))

NextCatalog ==
    \/ GetTableNames
    \/ GetColumns
    \/ GetCatalogConstraints
    \/ Assemble
    \/ GetEnums

SpecCatalog == Init /\ [][NextCatalog]_vars

----------------------------------------------------------------------------
(* getTableNames alone, over names that are prefixes, substrings and case
   variants of each other *)

Logs == <<"L", "o", "g", "s">>
ogs  == <<"o", "g", "s">>
NamePool == {log, logs, Logs, ogs}

MaxRows == 2      \* rows of the table-list query
MaxExclude == 2   \* entries of the exclusion list

TablesInit ==
    /\ pc = "getTableNames"
    /\ exclude \in SeqsUpTo(NamePool, MaxExclude)
    /\ rows = <<>> /\ tables = <<>> /\ idx = 1 /\ cols = <<>> /\ constraints = <<>>
    /\ colsOf = <<>> /\ consOf = <<>> /\ enumRows = <<>> /\ ret = NoReturn
    /\ queries = <<>>
    /\ MainIdle

ListTables == GetTableNamesFrom(DistinctSeqs(NamePool, MaxRows))

SpecTables == TablesInit /\ [][ListTables]_vars

----------------------------------------------------------------------------
(* getEnums alone, over labels that may hold any character *)

MaxLabelLen == 2  \* characters of one enum label
MaxLabels == 3    \* labels of one enum

LabelChars == {"x", "|"}
Labels == SeqsUpTo(LabelChars, MaxLabelLen)
LabelLists == SeqsUpTo(Labels, MaxLabels) \ {<<>>}
DeclaredEnums == {<<>>} \cup {<<[Name |-> "status", Labels |-> ls]>> : ls \in LabelLists}

EnumsInit ==
    /\ pc = "getEnums"
    /\ exclude = <<>>
    /\ rows = <<>> /\ tables = <<>> /\ idx = 1 /\ cols = <<>> /\ constraints = <<>>
    /\ colsOf = <<>> /\ consOf = <<>> /\ enumRows = <<>> /\ ret = NoReturn
    /\ queries = <<>>
    /\ MainIdle

ListEnums == GetEnumsFrom(DeclaredEnums)

SpecEnums == EnumsInit /\ [][ListEnums]_vars

----------------------------------------------------------------------------
(* main: extraction, then one withWriter call per output flag *)

\* A flag is unset, "-" (standard output) or a file name.
Destinations == {"", "-", "file"}

\* What a callback did: how much it wrote and how it ended.
Ok == [status |-> "ok", wrote |-> "all"]
ErrNone == [status |-> "err", wrote |-> "none"]
ErrSome == [status |-> "err", wrote |-> "some"]
PanicNone == [status |-> "panic", wrote |-> "none"]
PanicSome == [status |-> "panic", wrote |-> "some"]

\* pumlDump: the only failure is writer.Write, which panics.
pumlCallback == {Ok, PanicNone, PanicSome}
\* json.MarshalIndent fails before anything is written, w.Write may fail part way.
jsonCallback == {Ok, ErrNone, ErrSome}
\* mdDump: template Parse fails before, Execute may fail part way.
mdCallback == {Ok, ErrNone, ErrSome}

\* The state of a destination after a callback that wrote `wrote` to it.
After(filename, wrote) ==
    CASE wrote = "all" -> "written"
      [] wrote = "some" -> "partial"
      [] OTHER -> IF filename = "-" THEN "untouched" ELSE "created"

\* log.Fatal / panic / return
Ending(status) ==
    CASE status = "err" -> "fatal"
      [] status = "panic" -> "panic"
      [] OTHER -> "running"

\* if *flag != "" { withWriter(*flag, callback) }
WithWriter(r, callback, nextPc) ==
    IF flags[r] = ""
    THEN /\ pc' = nextPc
         /\ UNCHANGED <<outs, exitStatus>>
    ELSE \/ /\ flags[r] # "-"          \* os.Create fails
            /\ exitStatus' = "fatal"
            /\ pc' = "exited"
            /\ UNCHANGED outs
         \/ \E o \in callback :
              /\ outs' = [outs EXCEPT ![r] = After(flags[r], o.wrote)]
              /\ exitStatus' = Ending(o.status)
              /\ pc' = IF o.status = "ok" THEN nextPc ELSE "exited"

MainInit ==
    /\ pc = "main"
    /\ exclude = <<>>
    /\ rows = <<>> /\ tables = <<>> /\ idx = 1 /\ cols = <<>> /\ constraints = <<>>
    /\ colsOf = <<>> /\ consOf = <<>> /\ enumRows = <<>> /\ ret = NoReturn
    /\ queries = <<>>
    /\ flags \in [Renderers -> Destinations]
    /\ outs = [r \in Renderers |-> "untouched"]
    /\ exitStatus = "running"

\* fullSchema, err := getSchema(config); if err != nil { log.Fatal(...) }
MainGetSchema ==
    /\ pc = "main"
    /\ \/ /\ ret' = [schema |-> NilSchema, err |-> ErrQuery(QTables)]
          /\ exitStatus' = "fatal"
          /\ pc' = "exited"
       \/ /\ ret' = [schema |-> Schema(<<>>, <<>>), err |-> NoErr]
          /\ pc' = "puml"
          /\ UNCHANGED exitStatus
    /\ UNCHANGED <<exclude, rows, tables, idx, cols, constraints, colsOf, consOf,
                   enumRows, queries, flags, outs>>

MainPuml ==
    /\ pc = "puml"
    /\ WithWriter("puml", pumlCallback, "json")
    /\ UNCHANGED <<extractVars, flags>>

MainJson ==
    /\ pc = "json"
    /\ WithWriter("json", jsonCallback, "md")
    /\ UNCHANGED <<extractVars, flags>>

MainMd ==
    /\ pc = "md"
    /\ WithWriter("md", mdCallback, "end")
    /\ UNCHANGED <<extractVars, flags>>

\* main returns: exit status 0
MainReturn ==
    /\ pc = "end"
    /\ pc' = "exited"
    /\ exitStatus' = "ok"
    /\ UNCHANGED <<extractVars, flags, outs>>

NextMain == MainGetSchema \/ MainPuml \/ MainJson \/ MainMd \/ MainReturn

SpecMain == MainInit /\ [][NextMain]_vars

----------------------------------------------------------------------------
(* Properties *)

\* getFullSchema returned a Schema and no error.
ReturnedSchema == pc = "returned" /\ ret.err = NoErr
\* getFullSchema returned an error.
ReturnedError == pc = "returned" /\ ret.err # NoErr

RECURSIVE IsSubsequence(_, _)
IsSubsequence(s, t) ==
    IF s = <<>> THEN TRUE
    ELSE IF t = <<>> THEN FALSE
    ELSE IF Head(s) = Head(t) THEN IsSubsequence(Tail(s), Tail(t))
    ELSE IsSubsequence(s, Tail(t))

Count(x, s) == Cardinality({i \in 1..Len(s) : s[i] = x})

Last(s) == s[Len(s)]

NamesOf(ts) == [i \in 1..Len(ts) |-> ts[i].Name]

C3_FailFastState ==
    ReturnedError =>
        /\ ret.schema = NilSchema
        /\ IF ret.err.kind = "query failed"
           THEN /\ Last(queries) = ret.err.query
                /\ Count(ret.err.query, queries) = 1
           ELSE /\ Last(queries) = QConstraints(tables[idx].Name)
                /\ Len(consOf) = idx
        /\ ret.err # ErrQuery(QEnums) => Count(QEnums, queries) = 0

\* C3: a failed extraction returns the error with a nil Schema; the step that
\* failed is the last thing the run did (a failed query is the last query of
\* the log and was issued once, a failed validation follows the constraint
\* query of its table directly), and nothing is issued after the return.
C3_FailFast == []C3_FailFastState /\ [][pc = "returned" => queries' = queries]_vars

\* The column query of the second table failed after the first was assembled.
C3_Witness ==
    /\ ReturnedError
    /\ idx = 2
    /\ Len(tables) = 2
    /\ ret.err = ErrQuery(QColumns(tables[2].Name))
    /\ tables[1].KeyColumns # <<>>

\* C4: the tables getTableNames returns are the rows whose name equals no
\* entry of the exclusion list, in row order; a row that is only a prefix, a
\* substring or a case variant of an entry is kept.
Listed == pc \in {"getColumns", "getEnums"}

C4_ExactExclusion ==
    Listed =>
        /\ NamesOf(tables) = SelectSeq(rows, LAMBDA n : \A i \in 1..Len(exclude) : exclude[i] # n)
        /\ \A k \in 1..Len(rows) :
              (/\ \E i \in 1..Len(exclude) :
                     \/ IsPrefix(rows[k], exclude[i])
                     \/ IsSubstring(rows[k], exclude[i])
                     \/ EqualFold(rows[k], exclude[i])
               /\ rows[k] \notin Range(exclude))
              => rows[k] \in Range(NamesOf(tables))

\* "logs" is excluded and dropped while its prefix "log" is kept.
C4_Witness ==
    /\ Listed
    /\ exclude = <<logs>>
    /\ rows = <<log, logs>>
    /\ NamesOf(tables) = <<log>>

IsPrimaryKey(K) == K.ConstraintType = "PRIMARY KEY"
IsForeignKey(K) == K.ConstraintType = "FOREIGN KEY"

\* C9: in a returned Schema a column of table T is a key column exactly when
\* its name is a local column of a PRIMARY KEY constraint fetched for T
\* itself; a table with no PRIMARY KEY constraint has no key column and keeps
\* all its columns in Columns.
C9_KeysPerTable ==
    ReturnedSchema =>
        \A i \in 1..Len(ret.schema.Tables) :
            LET T == ret.schema.Tables[i]
                pkNames == {l.Column : l \in UNION {Range(K.LocalColumns) :
                                K \in {K \in Range(consOf[i]) : IsPrimaryKey(K)}}} IN
            /\ \A c \in Range(colsOf[i]) :
                   (c \in Range(T.KeyColumns)) <=> (c.Name \in pkNames)
            /\ (\A K \in Range(consOf[i]) : ~IsPrimaryKey(K)) =>
                   (T.KeyColumns = <<>> /\ T.Columns = colsOf[i])

\* Two returned tables with a column "a" each: the first has a PRIMARY KEY on
\* it, the second has no PRIMARY KEY constraint and keeps "a" as a plain column.
C9_Witness ==
    /\ ReturnedSchema
    /\ Len(ret.schema.Tables) = 2
    /\ ret.schema.Tables[1].KeyColumns = <<ColumnDefinition("a")>>
    /\ \A K \in Range(consOf[2]) : ~IsPrimaryKey(K)
    /\ ret.schema.Tables[2].KeyColumns = <<>>
    /\ ColumnDefinition("a") \in Range(ret.schema.Tables[2].Columns)

\* The ForeignKeyDefinition the code builds from a one-to-one FOREIGN KEY.
DefinitionOf(K) ==
    ForeignKeyDefinition(K.LocalColumns[1].Column, K.ConstraintName,
                         K.ForeignColumns[1].Table, K.ForeignColumns[1].Column)

NotExcluded(n) == \A i \in 1..Len(exclude) : exclude[i] # n

\* C7: the returned Schema is a function of the query results and the
\* exclusion list, with no reordering: the tables are the rows that are not
\* excluded, in row order; the foreign keys of a table are those of its FOREIGN
\* KEY constraints in scan order; its key and plain columns are the fetched
\* columns whose name is, or is not, a primary-key column, in fetched order;
\* the enums are those of the enum query in its order.
C7_Deterministic ==
    ReturnedSchema =>
        /\ NamesOf(ret.schema.Tables) = SelectSeq(rows, NotExcluded)
        /\ \A i \in 1..Len(ret.schema.Tables) :
              LET T == ret.schema.Tables[i]
                  fks == SelectSeq(consOf[i], IsForeignKey)
                  pkNames == {l.Column : l \in UNION {Range(K.LocalColumns) :
                                K \in {K \in Range(consOf[i]) : IsPrimaryKey(K)}}} IN
              /\ T.ForeignKeys = [k \in 1..Len(fks) |-> DefinitionOf(fks[k])]
              /\ T.KeyColumns = SelectSeq(colsOf[i], LAMBDA c : c.Name \in pkNames)
              /\ T.Columns = SelectSeq(colsOf[i], LAMBDA c : c.Name \notin pkNames)
        /\ NamesOf(ret.schema.Enums) = NamesOf(enumRows)

\* Two tables returned in row order, one with two foreign keys in scan order,
\* and two enums.
C7_Witness ==
    /\ ReturnedSchema
    /\ rows = <<logs, log>>
    /\ NamesOf(ret.schema.Tables) = <<logs, log>>
    /\ \E i \in 1..2 :
          /\ Len(consOf[i]) = 2
          /\ consOf[i][1].ConstraintName = "fk2"
          /\ consOf[i][2].ConstraintName = "fk1"
          /\ [k \in 1..2 |-> ret.schema.Tables[i].ForeignKeys[k].Name] = <<"fk2", "fk1">>
    /\ NamesOf(ret.schema.Enums) = <<"role", "status">>

OneToOne(K) == Len(K.LocalColumns) = 1 /\ Len(K.ForeignColumns) = 1

\* The local columns of K that report an owning table other than t, in order.
Foreigners(K, t) == SelectSeq(K.LocalColumns, LAMBDA l : l.Table # t)

\* K passes every validation of the loop body for table t.
Valid(K, t) ==
    \/ IsPrimaryKey(K) /\ Foreigners(K, t) = <<>>
    \/ IsForeignKey(K) /\ OneToOne(K) /\ Foreigners(K, t) = <<>>

\* Every constraint scanned before the k-th of table i is valid.
FirstFailure(i, k) == \A j \in 1..(k - 1) : Valid(consOf[i][j], tables[i].Name)

\* The one-to-one FOREIGN KEY constraints of list cs that give definition d.
Giving(d, cs) ==
    {k \in 1..Len(cs) : IsForeignKey(cs[k]) /\ OneToOne(cs[k]) /\ DefinitionOf(cs[k]) = d}

\* C2 as stated: a one-to-one FOREIGN KEY K fetched for T gives exactly one
\* ForeignKeyDefinition in T.ForeignKeys of the returned Schema; any other K
\* makes getFullSchema return no Schema and an error that names K.
C2_Original ==
    \A i \in 1..Len(consOf) : \A k \in 1..Len(consOf[i]) :
        LET K == consOf[i][k] IN
        IsForeignKey(K) =>
            IF OneToOne(K)
            THEN ReturnedSchema =>
                    Count(DefinitionOf(K), ret.schema.Tables[i].ForeignKeys)
                        = Cardinality(Giving(DefinitionOf(K), consOf[i]))
            ELSE pc = "returned" =>
                    /\ ret.schema = NilSchema
                    /\ ret.err = ErrForeignKeyColumns(K)

\* C2 as amended: the same, but the error names K only when no constraint
\* scanned before K in T's list fails a validation; otherwise the run still
\* fails with no Schema, on the error of that earlier constraint.
C2_ForeignKeys ==
    \A i \in 1..Len(consOf) : \A k \in 1..Len(consOf[i]) :
        LET K == consOf[i][k] IN
        IsForeignKey(K) =>
            IF OneToOne(K)
            THEN ReturnedSchema =>
                    Count(DefinitionOf(K), ret.schema.Tables[i].ForeignKeys)
                        = Cardinality(Giving(DefinitionOf(K), consOf[i]))
            ELSE pc = "returned" =>
                    /\ ret.schema = NilSchema
                    /\ ret.err # NoErr
                    /\ FirstFailure(i, k) => ret.err = ErrForeignKeyColumns(K)

\* The second table has a composite foreign key after a valid constraint and
\* the run failed naming it, the first table having been assembled with a
\* foreign key of its own.
C2_Witness ==
    /\ ReturnedError
    /\ idx = 2
    /\ tables[1].ForeignKeys # <<>>
    /\ Len(consOf) = 2
    /\ Len(consOf[2]) = 2
    /\ consOf[2][1].ConstraintName = "fk1"
    /\ consOf[2][2].ConstraintName = "fk3"
    /\ ret.err = ErrForeignKeyColumns(consOf[2][2])

\* K is a PRIMARY KEY with a local column of another table, or a FOREIGN KEY
\* whose single local column is of another table.
Mismatched(K, t) ==
    /\ Foreigners(K, t) # <<>>
    /\ IsPrimaryKey(K) \/ (IsForeignKey(K) /\ Len(K.LocalColumns) = 1)

\* The error of the owning-table check for K in table t.
OwningTableError(K, t) ==
    IF IsPrimaryKey(K) THEN ErrPrimaryKeyTable(t, K, Head(Foreigners(K, t)))
    ELSE ErrForeignKeyTable(t, K, Head(Foreigners(K, t)))

C5_RoundTrip ==
    ReturnedSchema =>
        \A i \in 1..Len(enumRows) : ret.schema.Enums[i].Values = enumRows[i].Labels

\* C6: a run of main that ends with an error has created and written nothing.
C6_NoPartialOutput ==
    exitStatus \in {"fatal", "panic"} => \A r \in Renderers : outs[r] = "untouched"

\* C10: every RefTable of a returned Schema is the name of one of its tables.
C10_RefTablesPresent ==
    ReturnedSchema =>
        \A i \in 1..Len(ret.schema.Tables) :
            \A fk \in Range(ret.schema.Tables[i].ForeignKeys) :
                fk.RefTable \in Range(NamesOf(ret.schema.Tables))

\* The two queries of each of the first n tables of a list of names, in order.
RECURSIVE TableQueries(_, _)
TableQueries(names, n) ==
    IF n = 0 THEN <<>>
    ELSE TableQueries(names, n - 1) \o <<QColumns(names[n]), QConstraints(names[n])>>

\* How many queries have been issued when the run is at pc with loop index i.
IssuedAt(p, i) ==
    CASE p = "getTableNames" -> 0
      [] p = "getColumns" -> 1 + 2 * (i - 1)
      [] p = "getConstraints" -> 2 + 2 * (i - 1)
      [] p = "assemble" -> 3 + 2 * (i - 1)
      [] p = "getEnums" -> 1 + 2 * (i - 1)
      [] OTHER -> -1

\* C11: the table-list query is issued first and once; then, table by table in
\* list order, the column query and after it the constraint query, both before
\* the table's constraints are classified and before any query of the next
\* table; the enum query is issued once, after every table was assembled, and
\* never in a run that fails on a table; no query names an excluded table.
C11_QueryOrder ==
    LET kept == SelectSeq(rows, NotExcluded)
        expected == <<QTables>> \o TableQueries(kept, Len(kept)) \o <<QEnums>> IN
    /\ Len(queries) <= Len(expected)
    /\ queries = SubSeq(expected, 1, Len(queries))
    /\ pc # "returned" => Len(queries) = IssuedAt(pc, idx)
    /\ pc = "assemble" => /\ Len(colsOf) = idx /\ Len(consOf) = idx
                          /\ cols = colsOf[idx] /\ constraints = consOf[idx]
    /\ Count(QEnums, queries) > 0 =>
          /\ Count(QEnums, queries) = 1
          /\ idx = Len(tables) + 1
          /\ Len(consOf) = Len(tables)
    /\ (ReturnedError /\ idx <= Len(tables)) => Count(QEnums, queries) = 0
    /\ ReturnedSchema => queries = expected
    /\ \A k \in 1..Len(queries) :
          queries[k].q \in {"columns", "constraints"} =>
              /\ NotExcluded(queries[k].table)
              /\ Count(queries[k], queries) = 1

\* A run over two tables that issued all six queries and returned a Schema.
C11_Witness ==
    /\ ReturnedSchema
    /\ rows = <<logs, log>>
    /\ queries = <<QTables, QColumns(logs), QConstraints(logs),
                   QColumns(log), QConstraints(log), QEnums>>

\* K has a kind other than PRIMARY KEY and FOREIGN KEY.
UnknownKind(K) == ~IsPrimaryKey(K) /\ ~IsForeignKey(K)

====
